---------------------------- MODULE Spec2Model ----------------------------
(***************************************************************************)
(* just-the-comments: extraction of the text annotations of a PDF into     *)
(* comment records (App.handleFileSelect, formatDate) and their export as  *)
(* CSV, TSV and plain text (saveCSV, copyCSVToClipboard,                   *)
(* formatTextContent), as written in src/vite.config.ts.                   *)
(*                                                                         *)
(* A JavaScript string is a sequence of one-character strings, so that     *)
(* trimming, quoting, pattern matching and date formatting are computed    *)
(* character by character.                                                 *)
(***************************************************************************)
EXTENDS Integers, Sequences, FiniteSets, TLC

VARIABLES
    ts,          \* formatDate: the raw timestamp handed to it
    formatted,   \* formatDate: its outcome, or NotCalled
    annot,       \* the annotation handed to the body of the annotation loop
    extracted,   \* the outcome of the loop body for annot, or NotExtracted
    file,               \* App state: the File chosen (its name), or NoFile
    fileName,           \* App state
    comments,           \* App state: CommentEntry[]
    loading,            \* App state
    error,              \* App state
    selectedRows,       \* App state: number[]
    columnVisibility,   \* App state: the keys in insertion order, each with its flag
    noCommentsWarning,  \* App state
    inFlight,    \* the handleFileSelect calls that are waiting on the parser,
                 \* in the order they were started
    sink         \* the last text handed to saveAs or to the clipboard

dateVars == <<ts, formatted>>
annotVars == <<annot, extracted>>
docVars == <<file, fileName, comments, loading, error, noCommentsWarning, inFlight>>
appVars == <<file, fileName, comments, loading, error, selectedRows,
             columnVisibility, noCommentsWarning, inFlight>>
sinkVars == <<sink>>
vars == <<ts, formatted, annot, extracted, file, fileName, comments, loading, error,
          selectedRows, columnVisibility, noCommentsWarning, inFlight, sink>>

(***************************************************************************)
(* Strings                                                                 *)
(***************************************************************************)
DigitChars == <<"0", "1", "2", "3", "4", "5", "6", "7", "8", "9">>

IsDigit(c) == \E i \in 1..10 : DigitChars[i] = c

DigitVal(c) == (CHOOSE i \in 1..10 : DigitChars[i] = c) - 1

\* s.substring(from - 1, to) with 1-based inclusive positions
Sub(s, from, to) == SubSeq(s, from, to)

\* the unary plus of line 34 applied to a string of digits
RECURSIVE ToNumber(_)
ToNumber(s) ==
    IF s = <<>> THEN 0
    ELSE ToNumber(SubSeq(s, 1, Len(s) - 1)) * 10 + DigitVal(s[Len(s)])

\* the decimal digits of n >= 0, left-padded with zeros to width w
RECURSIVE Pad(_, _)
Pad(n, w) ==
    IF w <= 1 /\ n < 10 THEN <<DigitChars[n + 1]>>
    ELSE Pad(n \div 10, w - 1) \o <<DigitChars[(n % 10) + 1]>>

\* does pat occur in s at position i
OccursAt(s, pat, i) ==
    /\ i >= 1
    /\ i + Len(pat) - 1 <= Len(s)
    /\ SubSeq(s, i, i + Len(pat) - 1) = pat

Includes(s, pat) == \E i \in 1..Len(s) : OccursAt(s, pat, i)

\* String.prototype.replace(pat, rep) with a string pattern: the first
\* occurrence only
Replace(s, pat, rep) ==
    IF Includes(s, pat)
    THEN LET i == CHOOSE k \in 1..Len(s) :
                      /\ OccursAt(s, pat, k)
                      /\ \A j \in 1..(k - 1) : ~OccursAt(s, pat, j)
         IN  SubSeq(s, 1, i - 1) \o rep \o SubSeq(s, i + Len(pat), Len(s))
    ELSE s

(***************************************************************************)
(* Date: the time value of a Date is kept as days since 1970-01-01 and     *)
(* seconds of the day (the milliseconds are always 0 here).                *)
(***************************************************************************)
\* ECMAScript MakeDay for a month 1..12 and day of month 1
DaysFromCivil(y, m) ==
    LET yy  == IF m <= 2 THEN y - 1 ELSE y
        era == yy \div 400
        yoe == yy - era * 400
        mp  == IF m > 2 THEN m - 3 ELSE m + 9
        doy == (153 * mp + 2) \div 5
        doe == yoe * 365 + yoe \div 4 - yoe \div 100 + doy
    IN  era * 146097 + doe - 719468

\* ECMAScript YearFromTime, MonthFromTime, DateFromTime
CivilFromDays(days) ==
    LET z   == days + 719468
        era == z \div 146097
        doe == z - era * 146097
        yoe == (doe - doe \div 1460 + doe \div 36524 - doe \div 146096) \div 365
        doy == doe - (365 * yoe + yoe \div 4 - yoe \div 100)
        mp  == (5 * doy + 2) \div 153
        d   == doy - (153 * mp + 2) \div 5 + 1
        m   == IF mp < 10 THEN mp + 3 ELSE mp - 9
        y   == yoe + era * 400 + (IF m <= 2 THEN 1 ELSE 0)
    IN  [year |-> y, month |-> m, day |-> d]

\* Date.UTC(year, monthIndex, day, hours, minutes, seconds): a year 0..99
\* means 1900 + year, and fields out of range carry over
DateUTC(year, monthIndex, day, hours, minutes, seconds) ==
    LET fullYear == IF year >= 0 /\ year <= 99 THEN 1900 + year ELSE year
        ym       == fullYear + (monthIndex \div 12)
        mn       == monthIndex % 12
        secs     == hours * 3600 + minutes * 60 + seconds
    IN  [days |-> DaysFromCivil(ym, mn + 1) + (day - 1) + (secs \div 86400),
         secs |-> secs % 86400]

\* Date.prototype.toISOString of a valid time value with 0 milliseconds
toISOString(date) ==
    LET c  == CivilFromDays(date.days)
        yr == IF c.year >= 0 /\ c.year <= 9999
              THEN Pad(c.year, 4)
              ELSE <<"+">> \o Pad(c.year, 6)
    IN  yr \o <<"-">> \o Pad(c.month, 2) \o <<"-">> \o Pad(c.day, 2)
           \o <<"T">> \o Pad(date.secs \div 3600, 2)
           \o <<":">> \o Pad((date.secs % 3600) \div 60, 2)
           \o <<":">> \o Pad(date.secs % 60, 2)
           \o <<".", "0", "0", "0", "Z">>

\* the ECMAScript date-time string format YYYY-MM-DDTHH:mm:ssZ
IsISODateTime(s) ==
    /\ Len(s) = 20
    /\ \A i \in {1, 2, 3, 4, 6, 7, 9, 10, 12, 13, 15, 16, 18, 19} : IsDigit(s[i])
    /\ s[5] = "-" /\ s[8] = "-" /\ s[11] = "T"
    /\ s[14] = ":" /\ s[17] = ":" /\ s[20] = "Z"
    /\ ToNumber(Sub(s, 6, 7)) \in 1..12
    /\ ToNumber(Sub(s, 9, 10)) \in 1..31
    /\ ToNumber(Sub(s, 12, 13)) \in 0..23
    /\ ToNumber(Sub(s, 15, 16)) \in 0..59
    /\ ToNumber(Sub(s, 18, 19)) \in 0..59

\* new Date(ts) of line 38: a string in the date-time string format gives
\* its time value; a string with no digit in it is no date in any engine and
\* gives the Invalid Date
NewDate(s) ==
    IF IsISODateTime(s)
    THEN [valid |-> TRUE,
          days  |-> DaysFromCivil(ToNumber(Sub(s, 1, 4)), ToNumber(Sub(s, 6, 7)))
                        + ToNumber(Sub(s, 9, 10)) - 1,
          secs  |-> ToNumber(Sub(s, 12, 13)) * 3600
                        + ToNumber(Sub(s, 15, 16)) * 60
                        + ToNumber(Sub(s, 18, 19))]
    ELSE [valid |-> FALSE, days |-> 0, secs |-> 0]

\* /D:(\d{4})(\d{2})(\d{2})(\d{2})(\d{2})(\d{2})/ matches s at position i
PdfDateAt(s, i) ==
    /\ i >= 1
    /\ i + 15 <= Len(s)
    /\ s[i] = "D"
    /\ s[i + 1] = ":"
    /\ \A k \in 2..15 : IsDigit(s[i + k])

\* RegExp.prototype.exec: the leftmost match, 0 when there is none
PdfDateExec(s) ==
    IF \E i \in 1..Len(s) : PdfDateAt(s, i)
    THEN CHOOSE i \in 1..Len(s) :
             /\ PdfDateAt(s, i)
             /\ \A j \in 1..(i - 1) : ~PdfDateAt(s, j)
    ELSE 0

Returned(v) == [thrown |-> FALSE, value |-> v, message |-> ""]
Thrown(msg) == [thrown |-> TRUE, value |-> <<>>, message |-> msg]

\* function formatDate(ts?: string): string
formatDate(raw) ==
    IF raw = <<>> THEN Returned(<<>>)
    ELSE LET i == PdfDateExec(raw) IN
         IF i > 0
         THEN LET y    == ToNumber(Sub(raw, i + 2, i + 5))
                  mo   == ToNumber(Sub(raw, i + 6, i + 7))
                  d    == ToNumber(Sub(raw, i + 8, i + 9))
                  h    == ToNumber(Sub(raw, i + 10, i + 11))
                  mi   == ToNumber(Sub(raw, i + 12, i + 13))
                  s    == ToNumber(Sub(raw, i + 14, i + 15))
                  date == DateUTC(y, mo - 1, d, h, mi, s)
              IN  Returned(Replace(Replace(toISOString(date), <<"T">>, <<" ">>),
                                   <<".", "0", "0", "0", "Z">>, <<"Z">>))
         ELSE LET date == NewDate(raw) IN
              IF date.valid
              THEN Returned(toISOString(date))
              ELSE Thrown("Invalid time value")

(***************************************************************************)
(* JavaScript values of an annotation's fields: undefined, a string, a     *)
(* number, an object with string properties (keys in insertion order) or   *)
(* an array of strings.                                                    *)
(***************************************************************************)
Undefined  == [t |-> "undefined", s |-> <<>>, n |-> 0, keys |-> <<>>, vals |-> <<>>]
Str(s)     == [t |-> "string", s |-> s, n |-> 0, keys |-> <<>>, vals |-> <<>>]
Num(n)     == [t |-> "number", s |-> <<>>, n |-> n, keys |-> <<>>, vals |-> <<>>]
Obj(ks, vs) == [t |-> "object", s |-> <<>>, n |-> 0, keys |-> ks, vals |-> vs]
Arr(items) == [t |-> "array", s |-> <<>>, n |-> 0, keys |-> <<>>, vals |-> items]

\* ToBoolean
Truthy(v) ==
    CASE v.t = "undefined" -> FALSE
      [] v.t = "string"    -> v.s # <<>>
      [] v.t = "number"    -> v.n # 0
      [] OTHER             -> TRUE

\* a || b
Or(a, b) == IF Truthy(a) THEN a ELSE b

\* typeof v === 'object'
IsObjectType(v) == v.t \in {"object", "array"}

\* v.key for an object or array v: the property, undefined when absent
Get(v, key) ==
    IF v.t = "object" /\ \E i \in 1..Len(v.keys) : v.keys[i] = key
    THEN Str(v.vals[CHOOSE i \in 1..Len(v.keys) : v.keys[i] = key])
    ELSE Undefined

\* Array.prototype.join(sep) of an array of strings
RECURSIVE Join(_, _)
Join(items, sep) ==
    IF items = <<>> THEN <<>>
    ELSE IF Len(items) = 1 THEN items[1]
    ELSE items[1] \o sep \o Join(Tail(items), sep)

KeyChars ==
    [str  |-> <<"s", "t", "r">>,
     text |-> <<"t", "e", "x", "t">>,
     dir  |-> <<"d", "i", "r">>]

\* the JSON form of a string: quoted, with ", \ and line breaks escaped
RECURSIVE JSONEscape(_)
JSONEscape(s) ==
    IF s = <<>> THEN <<>>
    ELSE (CASE s[1] = "\"" -> <<"\\", "\"">>
            [] s[1] = "\\" -> <<"\\", "\\">>
            [] s[1] = "\n" -> <<"\\", "n">>
            [] s[1] = "\r" -> <<"\\", "r">>
            [] OTHER       -> <<s[1]>>) \o JSONEscape(Tail(s))

JSONString(s) == <<"\"">> \o JSONEscape(s) \o <<"\"">>

\* JSON.stringify of an object with string properties or of an array of
\* strings
JSONStringify(v) ==
    IF v.t = "array"
    THEN <<"[">> \o Join([i \in 1..Len(v.vals) |-> JSONString(v.vals[i])], <<",">>) \o <<"]">>
    ELSE <<"{">>
         \o Join([i \in 1..Len(v.keys) |->
                     JSONString(KeyChars[v.keys[i]]) \o <<":">> \o JSONString(v.vals[i])],
                 <<",">>)
         \o <<"}">>

WhiteSpace == {" ", "\t", "\n", "\r"}

\* String.prototype.trim
RECURSIVE trim(_)
trim(s) ==
    IF s = <<>> THEN s
    ELSE IF s[1] \in WhiteSpace THEN trim(Tail(s))
    ELSE IF s[Len(s)] \in WhiteSpace THEN trim(SubSeq(s, 1, Len(s) - 1))
    ELSE s

(***************************************************************************)
(* handleFileSelect: one annotation of the loop over a page's annotations  *)
(***************************************************************************)
\* const subtype = a.subtype || a.annotationType || ""
annotSubtype(a) == Or(Or(a.subtype, a.annotationType), Str(<<>>))

TextSubtype == Str(<<"T", "e", "x", "t">>)

\* let contents = ""; if (typeof a.contents === 'string') ... : the string
\* the chain of lines 347-370 leaves in contents
annotContents(a) ==
    IF a.contents.t = "string" THEN a.contents.s
    ELSE IF Truthy(a.contents) /\ IsObjectType(a.contents)
    THEN IF Truthy(Get(a.contents, "str")) THEN Get(a.contents, "str").s
         ELSE IF Truthy(Get(a.contents, "text")) THEN Get(a.contents, "text").s
         ELSE IF a.contents.t = "array" THEN Join(a.contents.vals, <<" ">>)
         ELSE JSONStringify(a.contents)
    ELSE IF Truthy(a.contentsObj)
    THEN IF a.contentsObj.t = "string" THEN a.contentsObj.s
         ELSE IF Truthy(Get(a.contentsObj, "str")) THEN Get(a.contentsObj, "str").s
         ELSE JSONStringify(a.contentsObj)
    ELSE <<>>

\* let author = ""; if (a.titleObj && a.titleObj.str) ... : lines 373-387
annotAuthor(a) ==
    IF Truthy(a.titleObj) /\ Truthy(Get(a.titleObj, "str")) THEN Get(a.titleObj, "str").s
    ELSE IF Truthy(a.title) THEN a.title.s
    ELSE IF Truthy(a.T)
    THEN IF a.T.t = "string" THEN a.T.s ELSE Or(Get(a.T, "str"), Str(<<>>)).s
    ELSE IF Truthy(a.user) THEN a.user.s
    ELSE IF Truthy(a.author) THEN a.author.s
    ELSE IF Truthy(a.userName) THEN a.userName.s
    ELSE <<>>

\* const mod = a.modificationDate || a.modDate || a.modified || ""
annotMod(a) == Or(Or(Or(a.modificationDate, a.modDate), a.modified), Str(<<>>)).s

CommentEntry(page, author, comment, modified) ==
    [Page |-> page, Author |-> author, Comment |-> comment, Modified |-> modified]

\* processAnnotation without `if (subtype !== 'Text') continue`
processAnnotation_NoFilter(a, pageNum, found) ==
    LET contents == annotContents(a)
        date     == formatDate(annotMod(a))
    IN  IF contents # <<>> /\ trim(contents) # <<>>
        THEN IF date.thrown
             THEN [thrown |-> TRUE, message |-> date.message, found |-> found]
             ELSE [thrown  |-> FALSE,
                   message |-> "",
                   found   |-> Append(found, CommentEntry(pageNum, annotAuthor(a),
                                                          trim(contents), date.value))]
        ELSE [thrown |-> FALSE, message |-> "", found |-> found]

\* the body of `for (const a of annots)`: found after the annotation, or the
\* exception that leaves the loop
processAnnotation(a, pageNum, found) ==
    IF annotSubtype(a) # TextSubtype
    THEN [thrown |-> FALSE, message |-> "", found |-> found]
    ELSE LET contents == annotContents(a)
             author   == annotAuthor(a)
             mod      == annotMod(a)
         IN  IF contents # <<>> /\ trim(contents) # <<>>
             THEN LET date == formatDate(mod) IN
                  IF date.thrown
                  THEN [thrown |-> TRUE, message |-> date.message, found |-> found]
                  ELSE [thrown  |-> FALSE,
                        message |-> "",
                        found   |-> Append(found, CommentEntry(pageNum, author,
                                                               trim(contents), date.value))]
             ELSE [thrown |-> FALSE, message |-> "", found |-> found]

\* the loop over the annotations of one page
RECURSIVE processAnnotations(_, _, _)
processAnnotations(annots, pageNum, found) ==
    IF annots = <<>> THEN [thrown |-> FALSE, message |-> "", found |-> found]
    ELSE LET r == processAnnotation(annots[1], pageNum, found) IN
         IF r.thrown THEN r
         ELSE processAnnotations(Tail(annots), pageNum, r.found)

(***************************************************************************)
(* formatDate on its own: the raw timestamps an annotation may carry       *)
(***************************************************************************)
MaxPages == 2

NotCalled == [thrown |-> FALSE, value |-> <<"?">>, message |-> "not called"]

Years   == {50, 1999, 2023, 2024, 9999}
Months  == {0, 1, 2, 6, 12, 13}
Days    == {0, 1, 15, 28, 29, 30, 31, 32}
Hours   == {0, 14, 23, 24}
Minutes == {0, 30, 59, 60}
Seconds == {0, 22, 59, 60}

PdfDate(y, mo, d, h, mi, s) ==
    <<"D", ":">> \o Pad(y, 4) \o Pad(mo, 2) \o Pad(d, 2)
                 \o Pad(h, 2) \o Pad(mi, 2) \o Pad(s, 2)

Suffixes == {<<>>, <<"Z">>, <<"+", "0", "2", "'", "0", "0", "'">>}

PdfDates ==
    { PdfDate(y, mo, d, 14, 30, 22) \o x : y \in Years, mo \in Months, d \in Days, x \in Suffixes }
    \cup { PdfDate(2023, 6, 15, h, mi, s) : h \in Hours, mi \in Minutes, s \in Seconds }

OtherDates ==
    { <<>>,
      <<"n", "/", "a">>,
      <<"D", ":", "n", "o", "w">>,
      <<"2", "0", "2", "3", "-", "0", "6", "-", "1", "5", "T",
        "1", "4", ":", "3", "0", ":", "2", "2", "Z">>,
      <<"x">> \o PdfDate(2023, 6, 15, 14, 30, 22) }

RawTimestamps == PdfDates \cup OtherDates

DateIdle ==
    /\ ts = <<>>
    /\ formatted = NotCalled

(***************************************************************************)
(* The loop body on its own: the shapes an annotation may have             *)
(***************************************************************************)
NotExtracted == [thrown |-> FALSE, message |-> "not called", found |-> <<>>]

Hi    == <<"H", "i">>
Note  == <<"N", "o", "t", "e">>
Alice == <<"A", "l", "i", "c", "e">>
Bob   == <<"B", "o", "b">>

Subtypes == {Undefined, TextSubtype, Str(<<"H", "i", "g", "h", "l", "i", "g", "h", "t">>)}

AnnotationTypes == {Undefined, Num(1), TextSubtype}

ContentsValues ==
    { Undefined,
      Str(<<>>),
      Str(<<" ", "\n">>),
      Str(<<" ">> \o Hi \o <<" ">>),
      Obj(<<"str">>, <<Note>>),
      Obj(<<"str", "text">>, <<<<>>, Hi>>),
      Obj(<<"dir">>, <<<<"l", "t", "r">>>>),
      Obj(<<>>, <<>>),
      Arr(<<Hi, Note>>),
      Arr(<<>>) }

ContentsObjValues ==
    { Undefined,
      Str(Bob),
      Obj(<<"str">>, <<Alice>>),
      Obj(<<"str", "dir">>, <<<<>>, <<"l", "t", "r">>>>) }

NoAnnotation ==
    [subtype |-> Undefined, annotationType |-> Undefined,
     contents |-> Undefined, contentsObj |-> Undefined,
     titleObj |-> Undefined, title |-> Undefined, T |-> Undefined,
     user |-> Undefined, author |-> Undefined, userName |-> Undefined,
     modificationDate |-> Undefined, modDate |-> Undefined, modified |-> Undefined]

TextAnnotation(text) ==
    [NoAnnotation EXCEPT !.subtype = TextSubtype, !.contents = Str(text)]

ContentAnnots ==
    { [NoAnnotation EXCEPT !.subtype = st, !.annotationType = at,
                           !.contents = c, !.contentsObj = co] :
        st \in Subtypes, at \in AnnotationTypes,
        c \in ContentsValues, co \in ContentsObjValues }

AuthorAnnots ==
    { [TextAnnotation(Hi) EXCEPT !.titleObj = to, !.title = ti, !.T = t,
                                 !.user = u, !.author = au, !.userName = un] :
        to \in {Undefined, Obj(<<"str">>, <<Alice>>), Obj(<<"str">>, <<<<>>>>)},
        ti \in {Undefined, Str(<<>>), Str(Bob)},
        t  \in {Undefined, Str(Note), Obj(<<"str">>, <<Hi>>), Obj(<<"dir">>, <<<<"l", "t", "r">>>>)},
        u  \in {Undefined, Str(<<"u">>)},
        au \in {Undefined, Str(<<"a">>)},
        un \in {Undefined, Str(<<"n">>)} }

ModAnnots ==
    { [TextAnnotation(t) EXCEPT !.modificationDate = m1, !.modDate = m2, !.modified = m3] :
        t  \in {Hi, <<" ">>},
        m1 \in {Undefined, Str(<<>>), Str(PdfDate(2023, 1, 1, 12, 0, 0)), Str(<<"n", "/", "a">>)},
        m2 \in {Undefined, Str(PdfDate(2023, 6, 15, 14, 30, 22)), Str(<<"n", "/", "a">>)},
        m3 \in {Undefined, Str(PdfDate(1999, 12, 31, 23, 59, 59))} }

Annotations == ContentAnnots \cup AuthorAnnots \cup ModAnnots

PageNums == 1..MaxPages

AnnotIdle ==
    /\ annot = NoAnnotation
    /\ extracted = NotExtracted

(***************************************************************************)
(* App                                                                     *)
(***************************************************************************)
NoFile == "null"

COLUMN_FIELDS == <<"Page", "Author", "Modified", "Comment">>

DEFAULT_COLUMNS ==
    << [key |-> "Page", on |-> TRUE],
       [key |-> "Author", on |-> FALSE],
       [key |-> "Modified", on |-> FALSE],
       [key |-> "Comment", on |-> TRUE],
       [key |-> "__check__", on |-> TRUE] >>

\* the useState initial values of App
AppInit ==
    /\ file = NoFile
    /\ fileName = ""
    /\ comments = <<>>
    /\ loading = FALSE
    /\ error = ""
    /\ selectedRows = <<>>
    /\ columnVisibility = DEFAULT_COLUMNS
    /\ noCommentsWarning = FALSE
    /\ inFlight = <<>>

Range(seq) == { seq[i] : i \in 1..Len(seq) }

RemoveAt(seq, i) == SubSeq(seq, 1, i - 1) \o SubSeq(seq, i + 1, Len(seq))

\* obj[key] = value: an existing key keeps its place, a new key is added last
SetKey(obj, k, value) ==
    IF \E i \in 1..Len(obj) : obj[i].key = k
    THEN [i \in 1..Len(obj) |-> IF obj[i].key = k THEN [key |-> k, on |-> value] ELSE obj[i]]
    ELSE Append(obj, [key |-> k, on |-> value])

\* value.forEach(field => { newVisibility[field] = true })
RECURSIVE SetAll(_, _)
SetAll(obj, fields) ==
    IF fields = <<>> THEN obj
    ELSE SetAll(SetKey(obj, fields[1], TRUE), Tail(fields))

\* handleChange without newVisibility.Comment = true
handleChange_NoForce(visibility, value) ==
    LET reset == [i \in 1..Len(visibility) |-> [key |-> visibility[i].key, on |-> FALSE]]
    IN  SetAll(reset, value)

\* ColumnSelector.handleChange: the columnVisibility it hands to
\* setColumnVisibility
handleChange(visibility, value) ==
    LET reset == [i \in 1..Len(visibility) |-> [key |-> visibility[i].key, on |-> FALSE]]
    IN  SetKey(SetAll(reset, value), "Comment", TRUE)

\* const selectedColumns = Object.keys(columnVisibility).filter(key => columnVisibility[key])
selectedColumns(visibility) ==
    LET on == SelectSeq(visibility, LAMBDA e : e.on)
    IN  [i \in 1..Len(on) |-> on[i].key]

\* selectedRows after handleSelectionChange(selectionModel), for the number
\* of rows length = comments.length
handleSelectionChange(selectionModel, length) ==
    IF selectionModel.type = "include"
    THEN selectionModel.ids
    ELSE LET rows == [i \in 1..length |-> i - 1]
         IN  SelectSeq(rows, LAMBDA i : i \notin Range(selectionModel.ids))

(***************************************************************************)
(* The environment of App: the files the user picks, what the PDF parser   *)
(* answers, and what the table and the column selector report.             *)
(***************************************************************************)
MaxInFlight == 2
MaxAnnots == 1

FileNames == {"a.pdf", "b.pdf"}

\* err.message of a rejected getDocument, getPage or getAnnotations
ParserMessages == {"Invalid PDF structure.", ""}

aAlice ==
    [TextAnnotation(Hi) EXCEPT !.titleObj = Obj(<<"str">>, <<Alice>>)]
aDated ==
    [TextAnnotation(Note) EXCEPT !.modificationDate = Str(PdfDate(2023, 1, 1, 12, 0, 0))]
aHighlight ==
    [TextAnnotation(Hi) EXCEPT !.subtype = Str(<<"H", "i", "g", "h", "l", "i", "g", "h", "t">>)]
aBadDate ==
    [TextAnnotation(Hi) EXCEPT !.modificationDate = Str(<<"n", "/", "a">>)]
aPadded ==
    [TextAnnotation(<<" ", "O", "K", "\n">>) EXCEPT !.subtype = Undefined,
                                                    !.annotationType = TextSubtype]

\* the annotations a page may hold, by a short name
PageAnnotation ==
    [alice |-> aAlice, dated |-> aDated, highlight |-> aHighlight, baddate |-> aBadDate,
     padded |-> aPadded]

ShortNames == {"alice", "dated", "highlight", "baddate"}

\* the annotation lists getAnnotations may resolve to, as lists of names
AnnotationLists ==
    UNION { [1..n -> ShortNames] : n \in 0..MaxAnnots }

\* the longer annotation lists of SpecExtract
MaxListed == 2

LongNames == {"dated", "padded", "highlight"}

LongLists ==
    UNION { [1..n -> LongNames] : n \in 0..MaxListed }

Annots(names) == [k \in 1..Len(names) |-> PageAnnotation[names[k]]]

\* a GridRowSelectionModel of the table: its ids are row indices, a Set in
\* the order the rows were added to it
Orderings(S) ==
    { q \in [1..Cardinality(S) -> S] : \A i, j \in 1..Cardinality(S) : i # j => q[i] # q[j] }

SelectionModels(length) ==
    { [type |-> t, ids |-> q] :
        t \in {"include", "exclude"},
        q \in UNION { Orderings(S) : S \in SUBSET (0..(length - 1)) } }

\* the value of the multiple Select: the "__check__" entry of
\* selectedColumns, which no menu item toggles, and the fields chosen, here
\* in the order opposite to COLUMN_FIELDS
ColumnValues ==
    { <<"__check__">> \o SelectSeq(<<"Comment", "Modified", "Author", "Page">>,
                                     LAMBDA f : f \in S) :
        S \in SUBSET Range(COLUMN_FIELDS) }

(***************************************************************************)
(* handleFileSelect                                                        *)
(***************************************************************************)
\* lines 323-332: up to the first await
handleFileSelect(f) ==
    /\ Len(inFlight) < MaxInFlight
    /\ file' = f
    /\ error' = ""
    /\ comments' = <<>>
    /\ loading' = TRUE
    /\ fileName' = f
    /\ inFlight' = Append(inFlight, [name |-> f, pc |-> "open", numPages |-> 0,
                                     pageNum |-> 1, found |-> <<>>])
    /\ UNCHANGED <<selectedRows, columnVisibility, noCommentsWarning>>

\* handleClick: the Upload button of the Navbar, whose file input hands the
\* chosen file to handleFileSelect
handleClick ==
    /\ \E f \in FileNames : handleFileSelect(f)
    /\ UNCHANGED <<dateVars, annotVars, sinkVars>>

\* handleWindowDrop: the window's drop listener
handleWindowDrop ==
    /\ \E f \in FileNames : handleFileSelect(f)
    /\ UNCHANGED <<dateVars, annotVars, sinkVars>>

\* lines 407-412: catch and finally
Catch(i, message) ==
    /\ error' = (IF message # "" THEN message ELSE "Failed to parse PDF.")
    /\ loading' = FALSE
    /\ inFlight' = RemoveAt(inFlight, i)
    /\ UNCHANGED <<file, fileName, comments, selectedRows, columnVisibility,
                   noCommentsWarning>>

\* lines 332-334: the document opens, with numPages pages
GetDocumentResolves(i, n) ==
    /\ inFlight[i].pc = "open"
    /\ inFlight' = [inFlight EXCEPT ![i].pc = "page", ![i].numPages = n]
    /\ UNCHANGED <<file, fileName, comments, loading, error, selectedRows,
                   columnVisibility, noCommentsWarning>>

\* lines 332-334: file.arrayBuffer() or getDocument rejects
GetDocumentRejects(i, message) ==
    /\ inFlight[i].pc = "open"
    /\ Catch(i, message)

\* lines 338-339: getPage or getAnnotations rejects
GetPageRejects(i, message) ==
    /\ inFlight[i].pc = "page"
    /\ Catch(i, message)

\* the loop over each annotation list on each page, computed once; it only
\* appends to found
PageLoops ==
    { [names   |-> names,
       pageNum |-> pageNum,
       result  |-> processAnnotations(Annots(names), pageNum, <<>>)] :
        names \in AnnotationLists \cup LongLists, pageNum \in PageNums }

LoopOverPage(names, pageNum, found) ==
    LET e == CHOOSE e \in PageLoops : e.names = names /\ e.pageNum = pageNum
    IN  [e.result EXCEPT !.found = found \o @]

\* lines 338-401 for one page: getAnnotations resolves to the annotations
\* named, and the loop over them
LoopResult(i, names) == LoopOverPage(names, inFlight[i].pageNum, inFlight[i].found)

\* the loop throws: catch and finally
LoopThrows(i, loop) ==
    /\ inFlight[i].pc = "page"
    /\ loop.thrown
    /\ Catch(i, loop.message)

\* the loop ends and pageNum++ leaves a page to read
NextPage(i, loop) ==
    /\ inFlight[i].pc = "page"
    /\ ~loop.thrown
    /\ inFlight[i].pageNum < inFlight[i].numPages
    /\ inFlight' = [inFlight EXCEPT ![i].pageNum = @ + 1, ![i].found = loop.found]
    /\ UNCHANGED <<file, fileName, comments, loading, error, selectedRows,
                   columnVisibility, noCommentsWarning>>

\* the loop ends on the last page: lines 403-406 and finally
SetComments(i, loop) ==
    /\ inFlight[i].pc = "page"
    /\ ~loop.thrown
    /\ inFlight[i].pageNum >= inFlight[i].numPages
    /\ comments' = loop.found
    /\ noCommentsWarning' = (IF Len(loop.found) = 0 THEN TRUE ELSE noCommentsWarning)
    /\ loading' = FALSE
    /\ inFlight' = RemoveAt(inFlight, i)
    /\ UNCHANGED <<file, fileName, error, selectedRows, columnVisibility>>

\* the three ways the loop over a page's annotations ends
LoopEnds(i, loop) ==
    \/ LoopThrows(i, loop)
    \/ NextPage(i, loop)
    \/ SetComments(i, loop)

GetAnnotationsResolves(i, names) == LoopEnds(i, LoopResult(i, names))

\* the steps of the handleFileSelect calls in flight, for the annotation
\* lists the parser may hand over
ParserSteps(lists) ==
    \E i \in 1..Len(inFlight) :
       \/ \E n \in 1..MaxPages : GetDocumentResolves(i, n)
       \/ \E m \in ParserMessages : GetDocumentRejects(i, m)
       \/ \E m \in ParserMessages : GetPageRejects(i, m)
       \/ \E names \in lists : GetAnnotationsResolves(i, names)

ParserAnswers ==
    /\ ParserSteps(AnnotationLists)
    /\ UNCHANGED <<dateVars, annotVars, sinkVars>>

\* the same steps with up to MaxListed annotations on a page
ParserAnswersLong ==
    /\ ParserSteps(LongLists)
    /\ UNCHANGED <<dateVars, annotVars, sinkVars>>

\* unloadFile: the Clear file button, shown while file is set
unloadFile ==
    /\ file # NoFile
    /\ file' = NoFile
    /\ fileName' = ""
    /\ comments' = <<>>
    /\ error' = ""
    /\ loading' = FALSE
    /\ selectedRows' = <<>>
    /\ UNCHANGED <<columnVisibility, noCommentsWarning, inFlight>>
    /\ UNCHANGED <<dateVars, annotVars, sinkVars>>

\* the table and the column selector are shown when a file is set and
\* loading is false (lines 522-657)
ResultsShown == ~loading /\ file # NoFile

\* onSelectionChange of the table
SelectionChange ==
    /\ ResultsShown
    /\ \E m \in SelectionModels(Len(comments)) :
          selectedRows' = handleSelectionChange(m, Len(comments))
    /\ UNCHANGED <<docVars, columnVisibility>>
    /\ UNCHANGED <<dateVars, annotVars, sinkVars>>

\* onChange of the column selector
ColumnChange ==
    /\ ResultsShown
    /\ \E value \in ColumnValues :
          columnVisibility' = handleChange(columnVisibility, value)
    /\ UNCHANGED <<docVars, selectedRows>>
    /\ UNCHANGED <<dateVars, annotVars, sinkVars>>

\* onClose of the no-comments Snackbar (the close button, or autoHideDuration)
CloseWarning ==
    /\ noCommentsWarning
    /\ noCommentsWarning' = FALSE
    /\ UNCHANGED <<file, fileName, comments, loading, error, selectedRows,
                   columnVisibility, inFlight>>
    /\ UNCHANGED <<dateVars, annotVars, sinkVars>>

(***************************************************************************)
(* The exports                                                             *)
(***************************************************************************)
FieldChars ==
    [Page      |-> <<"P", "a", "g", "e">>,
     Author    |-> <<"A", "u", "t", "h", "o", "r">>,
     Modified  |-> <<"M", "o", "d", "i", "f", "i", "e", "d">>,
     Comment   |-> <<"C", "o", "m", "m", "e", "n", "t">>,
     __check__ |-> <<"_", "_", "c", "h", "e", "c", "k", "_", "_">>]

\* Number.prototype.toString of a page number
NumberToString(n) == Pad(n, 1)

\* Object.keys(columnVisibility).filter((col) => columnVisibility[col] && col !== '__check__')
selectedFields(visibility) ==
    LET on == SelectSeq(visibility, LAMBDA e : e.on /\ e.key # "__check__")
    IN  [i \in 1..Len(on) |-> on[i].key]

\* selectedRows.length > 0 ? selectedRows.map(index => comments[index]).filter(Boolean) : comments
selectedComments(records, rows) ==
    IF Len(rows) > 0
    THEN LET valid == SelectSeq(rows, LAMBDA index : index >= 0 /\ index < Len(records))
         IN  [k \in 1..Len(valid) |-> records[valid[k] + 1]]
    ELSE records

\* (c as any)[field]?.toString() || ""
FieldString(c, field) ==
    CASE field = "Page"     -> NumberToString(c.Page)
      [] field = "Author"   -> c.Author
      [] field = "Modified" -> c.Modified
      [] field = "Comment"  -> c.Comment
      [] OTHER              -> <<>>

\* value.replace(/"/g, '""')
RECURSIVE DoubleQuotes(_)
DoubleQuotes(value) ==
    IF value = <<>> THEN <<>>
    ELSE (IF value[1] = "\"" THEN <<"\"", "\"">> ELSE <<value[1]>>) \o DoubleQuotes(Tail(value))

HasChar(value, c) == \E i \in 1..Len(value) : value[i] = c

\* escapeCSVField without the test for \r
escapeCSVField_NoCR(value, fieldName) ==
    IF value = <<>> THEN <<>>
    ELSE IF fieldName = "Comment" THEN <<"\"">> \o DoubleQuotes(value) \o <<"\"">>
    ELSE IF HasChar(value, ",") \/ HasChar(value, "\"") \/ HasChar(value, "\n")
    THEN <<"\"">> \o DoubleQuotes(value) \o <<"\"">>
    ELSE value

\* escapeCSVField of saveCSV
escapeCSVField(value, fieldName) ==
    IF value = <<>> THEN <<>>
    ELSE IF fieldName = "Comment" THEN <<"\"">> \o DoubleQuotes(value) \o <<"\"">>
    ELSE IF HasChar(value, ",") \/ HasChar(value, "\"") \/ HasChar(value, "\n") \/ HasChar(value, "\r")
    THEN <<"\"">> \o DoubleQuotes(value) \o <<"\"">>
    ELSE value

\* escapeTSVField of copyCSVToClipboard
escapeTSVField(value) ==
    IF value = <<>> THEN <<"\"", "\"">>
    ELSE <<"\"">> \o DoubleQuotes(value) \o <<"\"">>

NoOutput == [kind |-> "none", text |-> <<>>]
Output(kind, text) == [kind |-> kind, text |-> text]

\* saveCSV: the text of the Blob handed to saveAs, NoOutput when it returns
\* before
saveCSV(records, rows, visibility) ==
    LET fields == selectedFields(visibility) IN
    IF Len(fields) = 0 THEN NoOutput
    ELSE LET chosen == selectedComments(records, rows)
             lines  == [k \in 1..Len(chosen) |->
                           Join([j \in 1..Len(fields) |->
                                    escapeCSVField(FieldString(chosen[k], fields[j]), fields[j])],
                                <<",">>)]
             header == Join([j \in 1..Len(fields) |-> FieldChars[fields[j]]], <<",">>)
         IN  Output("csv", Join(<<header>> \o lines, <<"\n">>))

\* copyCSVToClipboard: the text handed to navigator.clipboard.writeText
copyCSVToClipboard(records, rows, visibility) ==
    LET fields == selectedFields(visibility) IN
    IF Len(fields) = 0 THEN NoOutput
    ELSE LET chosen == selectedComments(records, rows)
             header == Join([j \in 1..Len(fields) |-> escapeTSVField(FieldChars[fields[j]])],
                            <<"\t">>)
             lines  == [k \in 1..Len(chosen) |->
                           Join([j \in 1..Len(fields) |->
                                    escapeTSVField(FieldString(chosen[k], fields[j]))],
                                <<"\t">>)]
         IN  Output("tsv", Join(<<header>> \o lines, <<"\n">>))

\* the line formatTextContent makes of one record
TextLine(c, fields) ==
    LET p1     == IF "Page" \in Range(fields)
                  THEN <<<<"P">> \o NumberToString(c.Page)>> ELSE <<>>
        p2     == IF "Author" \in Range(fields) /\ c.Author # <<>>
                  THEN <<c.Author>> ELSE <<>>
        p3     == IF "Modified" \in Range(fields) /\ c.Modified # <<>>
                  THEN <<c.Modified>> ELSE <<>>
        parts  == p1 \o p2 \o p3
        prefix == IF Len(parts) > 0 THEN Join(parts, <<",", " ">>) ELSE <<>>
    IN  IF "Comment" \in Range(fields)
        THEN IF prefix # <<>> THEN prefix \o <<" ", "-", " ">> \o c.Comment ELSE c.Comment
        ELSE prefix

\* formatTextContent with lines.join('\n')
formatTextContent_OneNewline(records, rows, visibility) ==
    LET fields == selectedFields(visibility) IN
    IF Len(fields) = 0 THEN <<>>
    ELSE LET chosen == selectedComments(records, rows)
         IN  Join([k \in 1..Len(chosen) |-> TextLine(chosen[k], fields)], <<"\n">>)

\* formatTextContent
formatTextContent(records, rows, visibility) ==
    LET fields == selectedFields(visibility) IN
    IF Len(fields) = 0 THEN <<>>
    ELSE LET chosen == selectedComments(records, rows)
         IN  Join([k \in 1..Len(chosen) |-> TextLine(chosen[k], fields)], <<"\n", "\n">>)

\* saveTXT: the text of the Blob handed to saveAs
saveTXT(records, rows, visibility) ==
    LET text == formatTextContent(records, rows, visibility)
    IN  IF text = <<>> THEN NoOutput ELSE Output("txt", text)

\* copyToClipboard: the text handed to navigator.clipboard.writeText
copyToClipboard(records, rows, visibility) ==
    LET text == formatTextContent(records, rows, visibility)
    IN  IF text = <<>> THEN NoOutput ELSE Output("text", text)

SinkIdle == sink = NoOutput

\* the Copy and Save buttons are shown with the results and disabled when
\* there is no comment or no visible column (lines 603, 611)
ExportEnabled ==
    /\ ResultsShown
    /\ Len(comments) # 0
    /\ \E i \in 1..Len(columnVisibility) : columnVisibility[i].on

\* an export that returns early hands nothing over
Hand(out) == sink' = (IF out.kind = "none" THEN sink ELSE out)

SaveCSV ==
    /\ ExportEnabled
    /\ Hand(saveCSV(comments, selectedRows, columnVisibility))
    /\ UNCHANGED <<appVars, dateVars, annotVars>>

CopyCSVToClipboard ==
    /\ ExportEnabled
    /\ Hand(copyCSVToClipboard(comments, selectedRows, columnVisibility))
    /\ UNCHANGED <<appVars, dateVars, annotVars>>

SaveTXT ==
    /\ ExportEnabled
    /\ Hand(saveTXT(comments, selectedRows, columnVisibility))
    /\ UNCHANGED <<appVars, dateVars, annotVars>>

CopyToClipboard ==
    /\ ExportEnabled
    /\ Hand(copyToClipboard(comments, selectedRows, columnVisibility))
    /\ UNCHANGED <<appVars, dateVars, annotVars>>

Init ==
    /\ AppInit
    /\ DateIdle
    /\ AnnotIdle
    /\ SinkIdle

Next ==
    \/ handleClick
    \/ handleWindowDrop
    \/ ParserAnswers
    \/ unloadFile
    \/ SelectionChange
    \/ ColumnChange
    \/ CloseWarning

Spec == Init /\ [][Next]_vars

\* the behaviours of Spec in which the user starts a load only when none is
\* in flight
NextOneAtATime ==
    \/ inFlight = <<>> /\ handleClick
    \/ inFlight = <<>> /\ handleWindowDrop
    \/ ParserAnswers
    \/ unloadFile
    \/ SelectionChange
    \/ ColumnChange
    \/ CloseWarning

SpecOneAtATime == Init /\ [][NextOneAtATime]_vars

\* the behaviours of SpecOneAtATime in which the row selection is left alone:
\* loads, unloads and column changes
NextColumns ==
    \/ inFlight = <<>> /\ handleClick
    \/ inFlight = <<>> /\ handleWindowDrop
    \/ ParserAnswers
    \/ unloadFile
    \/ ColumnChange
    \/ CloseWarning

SpecColumns == Init /\ [][NextColumns]_vars

(***************************************************************************)
(* SpecExtract: extractions one after the other, of documents with up to   *)
(* MaxListed annotations on a page                                         *)
(***************************************************************************)
NextExtract ==
    \/ inFlight = <<>> /\ handleClick
    \/ ParserAnswersLong

SpecExtract == Init /\ [][NextExtract]_vars

(***************************************************************************)
(* Reading CSV back: the quoting rules of RFC 4180.  A field that opens    *)
(* with a double quote runs to the closing one, with "" standing for one   *)
(* double quote; outside quotes a comma ends the field and a line break    *)
(* (\n, \r or \r\n) ends the row.                                          *)
(***************************************************************************)
\* mode: "start" at the start of a row, "field" at the start of a later
\* field, "text" in an unquoted field, "quoted" in a quoted one, "closing"
\* after a double quote met in a quoted field
RECURSIVE ParseCSVFrom(_, _, _, _, _, _)
ParseCSVFrom(s, i, rows, row, field, mode) ==
    IF i > Len(s)
    THEN IF mode = "start" THEN rows ELSE Append(rows, Append(row, field))
    ELSE LET c    == s[i]
             step == IF c = "\r" /\ i < Len(s) /\ s[i + 1] = "\n" THEN 2 ELSE 1
         IN  CASE mode = "quoted" /\ c = "\"" ->
                      ParseCSVFrom(s, i + 1, rows, row, field, "closing")
               [] mode = "quoted" /\ c # "\"" ->
                      ParseCSVFrom(s, i + 1, rows, row, Append(field, c), "quoted")
               [] mode = "closing" /\ c = "\"" ->
                      ParseCSVFrom(s, i + 1, rows, row, Append(field, c), "quoted")
               [] mode \in {"start", "field"} /\ c = "\"" ->
                      ParseCSVFrom(s, i + 1, rows, row, field, "quoted")
               [] mode # "quoted" /\ c = "," ->
                      ParseCSVFrom(s, i + 1, rows, Append(row, field), <<>>, "field")
               [] mode # "quoted" /\ c \in {"\n", "\r"} ->
                      ParseCSVFrom(s, i + step, Append(rows, Append(row, field)),
                                   <<>>, <<>>, "start")
               [] OTHER ->
                      ParseCSVFrom(s, i + 1, rows, row, Append(field, c), "text")

ParseCSV(s) == ParseCSVFrom(s, 1, <<>>, <<>>, <<>>, "start")

(***************************************************************************)
(* SpecFormat: the exports applied to the record sequences, selections and *)
(* column choices App can hold once a load has ended.  handleFileSelect    *)
(* leaves selectedRows as it was, so a selection may name rows of an       *)
(* earlier document.                                                       *)
(***************************************************************************)
MaxRows == 2

Stamp == formatDate(PdfDate(2023, 1, 1, 12, 0, 0)).value

FormatEntries ==
    { CommentEntry(1, Alice, Hi, <<>>),
      CommentEntry(2, <<>>, Note, Stamp),
      CommentEntry(2, <<"a", ",", "b">>, <<"x", "\"", "y">>, <<>>),
      CommentEntry(3, <<"\"", "q", "\"">>, <<"l", "\n", "m">>, Stamp),
      CommentEntry(10, <<"c", "\r", "d">>, <<"a", ",", " ", "b">>, <<>>),
      CommentEntry(10, <<"e", "\n", "f">>, <<"\"">>, <<>>) }

\* record sequences in the order handleFileSelect builds them: by page
FormatComments ==
    { q \in UNION { [1..n -> FormatEntries] : n \in 0..MaxRows } :
        \A i \in 1..(Len(q) - 1) : q[i].Page <= q[i + 1].Page }

Selections ==
    UNION { Orderings(S) : S \in SUBSET (0..(MaxRows - 1)) }

InitFormat ==
    /\ file = "a.pdf"
    /\ fileName = "a.pdf"
    /\ comments \in FormatComments
    /\ loading = FALSE
    /\ error = ""
    /\ selectedRows \in Selections
    /\ columnVisibility = DEFAULT_COLUMNS
    /\ noCommentsWarning = FALSE
    /\ inFlight = <<>>
    /\ SinkIdle
    /\ DateIdle
    /\ AnnotIdle

\* the selection and the columns are chosen, then the exports are made
NextFormat ==
    \/ SinkIdle /\ SelectionChange
    \/ SinkIdle /\ ColumnChange
    \/ SaveCSV
    \/ CopyCSVToClipboard
    \/ SaveTXT
    \/ CopyToClipboard

SpecFormat == InitFormat /\ [][NextFormat]_vars

(***************************************************************************)
(* SpecDate: formatDate applied to each raw timestamp                      *)
(***************************************************************************)
InitDate ==
    /\ ts \in RawTimestamps
    /\ formatted = NotCalled
    /\ AnnotIdle
    /\ AppInit
    /\ SinkIdle

CallFormatDate ==
    /\ formatted = NotCalled
    /\ formatted' = formatDate(ts)
    /\ UNCHANGED <<ts, annotVars, appVars, sinkVars>>

NextDate == CallFormatDate

SpecDate == InitDate /\ [][NextDate]_vars

(***************************************************************************)
(* SpecAnnot: the loop body applied to each annotation shape               *)
(***************************************************************************)
InitAnnot ==
    /\ annot \in Annotations
    /\ extracted = NotExtracted
    /\ DateIdle
    /\ AppInit
    /\ SinkIdle

CallProcessAnnotation ==
    /\ extracted = NotExtracted
    /\ \E pageNum \in PageNums : extracted' = processAnnotation(annot, pageNum, <<>>)
    /\ UNCHANGED <<annot, dateVars, appVars, sinkVars>>

NextAnnot == CallProcessAnnotation

SpecAnnot == InitAnnot /\ [][NextAnnot]_vars

(***************************************************************************)
(* The claims                                                              *)
(***************************************************************************)
\* the 14 digits of a raw timestamp that opens with D: and 14 digits,
\* written as YYYY-MM-DD HH:MM:SSZ
SameDigits(raw) ==
    Sub(raw, 3, 6) \o <<"-">> \o Sub(raw, 7, 8) \o <<"-">> \o Sub(raw, 9, 10)
        \o <<" ">> \o Sub(raw, 11, 12) \o <<":">> \o Sub(raw, 13, 14)
        \o <<":">> \o Sub(raw, 15, 16) \o <<"Z">>

DaysInMonth(y, m) ==
    IF m = 2
    THEN (IF (y % 4 = 0 /\ y % 100 # 0) \/ y % 400 = 0 THEN 29 ELSE 28)
    ELSE IF m \in {4, 6, 9, 11} THEN 30 ELSE 31

\* the 14 digits name a day of the calendar and a time of that day
CalendarDigits(raw) ==
    /\ ToNumber(Sub(raw, 7, 8)) \in 1..12
    /\ ToNumber(Sub(raw, 9, 10)) \in
           1..DaysInMonth(ToNumber(Sub(raw, 3, 6)), ToNumber(Sub(raw, 7, 8)))
    /\ ToNumber(Sub(raw, 11, 12)) \in 0..23
    /\ ToNumber(Sub(raw, 13, 14)) \in 0..59
    /\ ToNumber(Sub(raw, 15, 16)) \in 0..59

\* C10: for every raw timestamp that is D: followed by 14 digits (any suffix
\* ignored) formatDate returns YYYY-MM-DD HH:MM:SSZ made of those same
\* digits read as a UTC instant, and for the empty raw timestamp it returns
\* the empty string.  Stated here for the digits that name an instant: a day
\* of the calendar and a time of that day.
C10_FormatDateKeepsDigits ==
    formatted # NotCalled =>
        /\ (PdfDateAt(ts, 1) /\ CalendarDigits(ts)) => formatted = Returned(SameDigits(ts))
        /\ ts = <<>> => formatted = Returned(<<>>)

\* the sources of the comment text in the order of the fallback chain, each
\* as the string it yields (empty when it yields none)
ChainSources(a) ==
    << IF a.contents.t = "string" THEN a.contents.s ELSE <<>>,
       Get(a.contents, "str").s,
       Get(a.contents, "text").s,
       IF a.contents.t = "array" THEN Join(a.contents.vals, <<" ">>) ELSE <<>>,
       IF a.contents.t = "object" THEN JSONStringify(a.contents) ELSE <<>>,
       IF a.contentsObj.t = "string" THEN a.contentsObj.s ELSE Get(a.contentsObj, "str").s,
       IF a.contentsObj.t = "object" THEN JSONStringify(a.contentsObj) ELSE <<>> >>

FirstNonEmpty(sources) ==
    IF \E i \in 1..Len(sources) : sources[i] # <<>>
    THEN sources[CHOOSE i \in 1..Len(sources) :
                     /\ sources[i] # <<>>
                     /\ \A j \in 1..(i - 1) : sources[j] = <<>>]
    ELSE <<>>

\* C2: for every text annotation the comment is the trimmed text of the
\* first source of the fallback chain that yields a non-empty string, and
\* the annotation is skipped only when no source yields text; so an
\* annotation with contents "" and a non-empty contentsObj.str gives a record
\* with the contentsObj.str text.
C2_FirstNonEmptySourceWins ==
    (extracted # NotExtracted /\ annotSubtype(annot) = TextSubtype /\ ~extracted.thrown) =>
        LET text == trim(FirstNonEmpty(ChainSources(annot)))
        IN  IF text # <<>>
            THEN Len(extracted.found) = 1 /\ extracted.found[1].Comment = text
            ELSE extracted.found = <<>>

\* the indices of a selection in ascending order
Ascending(rows, length) ==
    SelectSeq([i \in 1..length |-> i - 1], LAMBDA i : i \in Range(rows))

\* the export of the given kind for a selection
Export(kind, records, rows, visibility) ==
    CASE kind = "csv"  -> saveCSV(records, rows, visibility)
      [] kind = "tsv"  -> copyCSVToClipboard(records, rows, visibility)
      [] kind = "txt"  -> saveTXT(records, rows, visibility)
      [] kind = "text" -> copyToClipboard(records, rows, visibility)
      [] OTHER         -> NoOutput

\* C3: for a non-empty selection every export holds exactly the records at
\* the selected indices in their original order (ascending index), whatever
\* the order in which handleSelectionChange received the indices.
C3_ExportInRecordOrder ==
    (sink.kind # "none" /\ selectedRows # <<>>
        /\ \A k \in 1..Len(selectedRows) : selectedRows[k] < Len(comments)) =>
        sink = Export(sink.kind, comments, Ascending(selectedRows, Len(comments)),
                      columnVisibility)

\* C5: each renderer (CSV, TSV, text) gives the empty string for an empty
\* applicable subset of records or an empty set of enabled fields.
C5_EmptyInputEmptyOutput ==
    (sink.kind # "none"
        /\ (selectedComments(comments, selectedRows) = <<>>
               \/ selectedFields(columnVisibility) = <<>>)) =>
        sink.text = <<>>

\* the rows a CSV reader must give back: the field names, then the field
\* values of each exported record
ExportedRows(records, rows, visibility) ==
    LET fields == selectedFields(visibility)
        chosen == selectedComments(records, rows)
    IN  <<[j \in 1..Len(fields) |-> FieldChars[fields[j]]]>>
        \o [k \in 1..Len(chosen) |->
               [j \in 1..Len(fields) |-> FieldString(chosen[k], fields[j])]]

Quoted(value) == <<"\"">> \o DoubleQuotes(value) \o <<"\"">>

NeedsQuotes(value) == \E i \in 1..Len(value) : value[i] \in {",", "\"", "\n", "\r"}

\* the text of a CSV row as the quoting rule gives it
RuleRow(c, fields) ==
    Join([j \in 1..Len(fields) |->
             LET value == FieldString(c, fields[j])
             IN  IF fields[j] = "Comment" \/ NeedsQuotes(value)
                 THEN Quoted(value) ELSE value],
         <<",">>)

\* C6: the CSV text of saveCSV quotes the Comment field always and any other
\* field exactly when it holds a comma, a double quote, \n or \r, passes the
\* other fields through verbatim, and read back with the CSV quoting rules it
\* gives the field names and the field values of every exported row.
C6_CSVRoundTrip ==
    sink.kind = "csv" =>
        LET fields == selectedFields(columnVisibility)
            chosen == selectedComments(comments, selectedRows)
        IN  /\ ParseCSV(sink.text) = ExportedRows(comments, selectedRows, columnVisibility)
            /\ sink.text = Join(<<Join([j \in 1..Len(fields) |-> FieldChars[fields[j]]], <<",">>)>>
                                \o [k \in 1..Len(chosen) |-> RuleRow(chosen[k], fields)],
                                <<"\n">>)

\* a CSV file was saved with the Author column, of records whose authors and
\* comments hold commas, double quotes and line breaks
C6_Witness ==
    /\ sink.kind = "csv"
    /\ "Author" \in Range(selectedFields(columnVisibility))
    /\ Len(selectedComments(comments, selectedRows)) = 2
    /\ \E k \in 1..2 : NeedsQuotes(selectedComments(comments, selectedRows)[k].Author)
    /\ \E k \in 1..2 : HasChar(selectedComments(comments, selectedRows)[k].Comment, "\n")

\* the loop over a page's annotations when an annotation that cannot be
\* processed is skipped
RECURSIVE SkipMalformed(_, _, _)
SkipMalformed(annots, pageNum, found) ==
    IF annots = <<>> THEN found
    ELSE LET r == processAnnotation(annots[1], pageNum, found)
         IN  SkipMalformed(Tail(annots), pageNum, IF r.thrown THEN found ELSE r.found)

\* C1: one malformed annotation never aborts the run: whenever the parser
\* hands over the annotations of a page, whatever their field shapes (also a
\* modification timestamp that is no date), the step sets no error and keeps
\* a record for every other well-formed text annotation; when the page is
\* the last one these records become the record sequence.
C1_MalformedAnnotationIsSkipped ==
    [][\A i \in 1..Len(inFlight) : \A names \in AnnotationLists :
          GetAnnotationsResolves(i, names) =>
              /\ error' = error
              /\ IF inFlight[i].pageNum < inFlight[i].numPages
                 THEN /\ Len(inFlight') = Len(inFlight)
                      /\ inFlight'[i].found =
                             SkipMalformed(Annots(names), inFlight[i].pageNum, inFlight[i].found)
                 ELSE comments' =
                          SkipMalformed(Annots(names), inFlight[i].pageNum, inFlight[i].found)]_vars

\* C4: every document load resets the row selection: once a load has ended
\* the selection holds no index chosen before it, so every index in
\* selectedRows is an index into the record sequence and the export covers
\* the records the selection names in the new document.
C4_LoadResetsSelection ==
    (inFlight = <<>> /\ ~loading) =>
        \A k \in 1..Len(selectedRows) : selectedRows[k] < Len(comments)

\* C7: a hard failure leaves no partial output: when opening the document,
\* getPage or getAnnotations fails, then after handleFileSelect has finished
\* the record sequence is empty, the error message is non-empty and loading
\* is false.
C7_HardFailureLeavesNoRecords ==
    [][\A i \in 1..Len(inFlight) : \A m \in ParserMessages :
          (GetDocumentRejects(i, m) \/ GetPageRejects(i, m)) =>
              (comments' = <<>> /\ error' # "" /\ ~loading')]_vars

\* C8: only one extraction is in flight at a time: no handleFileSelect
\* starts while an earlier one has not finished.
C8_OneExtractionInFlight == Len(inFlight) <= 1

\* C9: the no-comments warning is raised if and only if an extraction read
\* every page and produced no record, once per such load; a load that yields
\* a record or fails does not raise it, and once a later load has yielded
\* records the warning of an earlier empty load is not shown for the new
\* document.
C9_WarningOnlyForEmptyResult ==
    [][/\ \A i \in 1..Len(inFlight) : \A names \in AnnotationLists :
             SetComments(i, LoopResult(i, names)) => (noCommentsWarning' <=> comments' = <<>>)
       /\ (noCommentsWarning' /\ ~noCommentsWarning) =>
             \E i \in 1..Len(inFlight) : \E names \in AnnotationLists :
                 SetComments(i, LoopResult(i, names)) /\ comments' = <<>>]_vars

\* a string of the form YYYY-MM-DD HH:MM:SSZ: a space between the day and the
\* time, no fraction of a second
NativeForm(s) ==
    /\ Len(s) = 20
    /\ \A i \in {1, 2, 3, 4, 6, 7, 9, 10, 12, 13, 15, 16, 18, 19} : IsDigit(s[i])
    /\ s[5] = "-" /\ s[8] = "-" /\ s[11] = " "
    /\ s[14] = ":" /\ s[17] = ":" /\ s[20] = "Z"

\* C11: a non-empty raw timestamp that does not match the D: pattern and
\* parses as a date is formatted like a timestamp of the D: pattern, as
\* YYYY-MM-DD HH:MM:SSZ with a space and no fraction of a second.
C11_GenericDateInNativeForm ==
    (formatted # NotCalled /\ ts # <<>> /\ PdfDateExec(ts) = 0 /\ NewDate(ts).valid) =>
        (~formatted.thrown /\ NativeForm(formatted.value))

\* the six author sources in order, each as the string it yields (empty
\* when it yields none): titleObj.str, title, T (a string, or its str),
\* user, author, userName
AuthorSources(a) ==
    << Get(a.titleObj, "str").s,
       a.title.s,
       IF a.T.t = "string" THEN a.T.s ELSE Get(a.T, "str").s,
       a.user.s,
       a.author.s,
       a.userName.s >>

\* C12: the author of a record is the first non-empty value among the six
\* author sources in order, and the empty string only when none is
\* non-empty; an earlier source that is empty or has no string (a T object
\* without str) does not keep a later non-empty source from being used.
C12_FirstNonEmptyAuthorWins ==
    (extracted # NotExtracted /\ ~extracted.thrown /\ Len(extracted.found) = 1) =>
        extracted.found[1].Author = FirstNonEmpty(AuthorSources(annot))

\* columnVisibility[key]
Visible(visibility, k) ==
    \E i \in 1..Len(visibility) : visibility[i].key = k /\ visibility[i].on

\* C13: column forcing: after any column-selector changes (also with a value
\* list without Comment), loads and unloads, columnVisibility.Comment is
\* true, and the export fields of the CSV and TSV renderers are the enabled
\* ones of Page, Author, Modified, Comment in that fixed order, without the
\* __check__ marker.
C13_CommentForcedFieldsInOrder ==
    /\ Visible(columnVisibility, "Comment")
    /\ selectedFields(columnVisibility) =
           SelectSeq(COLUMN_FIELDS, LAMBDA f : Visible(columnVisibility, f))

\* the column selector was changed to Author and Modified, with Page off:
\* Comment is on, and a document is loaded
C13_Witness ==
    /\ ResultsShown
    /\ comments # <<>>
    /\ ~Visible(columnVisibility, "Page")
    /\ Visible(columnVisibility, "Author")
    /\ Visible(columnVisibility, "Modified")

\* the non-empty strings of parts, each after the first preceded by sep
RECURSIVE Separated(_, _, _)
Separated(parts, sep, started) ==
    IF parts = <<>> THEN <<>>
    ELSE IF parts[1] = <<>> THEN Separated(Tail(parts), sep, started)
    ELSE (IF started THEN sep ELSE <<>>) \o parts[1] \o Separated(Tail(parts), sep, TRUE)

\* the line of a record in the human-readable text: the prefix of P<page>,
\* author and modified, as far as enabled and non-empty, joined by ', ',
\* then ' - ' and the comment
RenderedLine(c, visibility) ==
    LET prefix == Separated(
                      << IF Visible(visibility, "Page")
                         THEN <<"P">> \o NumberToString(c.Page) ELSE <<>>,
                         IF Visible(visibility, "Author") THEN c.Author ELSE <<>>,
                         IF Visible(visibility, "Modified") THEN c.Modified ELSE <<>> >>,
                      <<",", " ">>, FALSE)
    IN  IF ~Visible(visibility, "Comment") THEN prefix
        ELSE IF prefix = <<>> THEN c.Comment
        ELSE prefix \o <<" ", "-", " ">> \o c.Comment

\* the lines of the records with two newline characters between them
RECURSIVE RenderedText(_, _)
RenderedText(records, visibility) ==
    IF records = <<>> THEN <<>>
    ELSE IF Len(records) = 1 THEN RenderedLine(records[1], visibility)
    ELSE RenderedLine(records[1], visibility) \o <<"\n", "\n">>
             \o RenderedText(Tail(records), visibility)

\* C14: the human-readable text has, for each record of the subset, the
\* line '<prefix> - <comment>' (just the comment when the prefix is empty),
\* the prefix being P<page>, the author and the modified date, as far as
\* enabled and non-empty, joined by ', '; the lines are joined by exactly
\* two newline characters.
C14_TextLines ==
    sink.kind \in {"txt", "text"} =>
        sink.text = RenderedText(selectedComments(comments, selectedRows), columnVisibility)

\* the two-record scenario: page 1 by Alice, page 2 without author, with
\* Page, Author and Comment enabled, saved as text
C14_Witness ==
    /\ sink = Output("txt", <<"P", "1", ",", " ">> \o Alice \o <<" ", "-", " ">> \o Hi
                                \o <<"\n", "\n", "P", "2", " ", "-", " ">> \o Note)
    /\ Len(comments) = 2
    /\ comments[2].Author = <<>>
    /\ selectedFields(columnVisibility) = <<"Page", "Author", "Comment">>

\* C15: after unloadFile the record sequence, the error and the row
\* selection are empty and the column projection is unchanged, in every
\* state from the unload until the next load is initiated (file stays null
\* over that span), also when an extraction was in flight at the unload.
C15_UnloadedStaysEmpty ==
    [][file' = NoFile =>
          /\ comments' = <<>>
          /\ error' = ""
          /\ selectedRows' = <<>>
          /\ columnVisibility' = columnVisibility]_vars

\* the subtype of an annotation, the first of subtype and annotationType
\* that is set, is the text-comment kind
IsTextKind(a) ==
    IF a.subtype.t # "undefined" /\ a.subtype # Str(<<>>)
    THEN a.subtype = TextSubtype
    ELSE a.annotationType = TextSubtype

\* recs are records of page pageNum that come, in the order of annots, from
\* annotations of the text-comment kind
RECURSIVE FromTextAnnotations(_, _, _)
FromTextAnnotations(recs, annots, pageNum) ==
    IF recs = <<>> THEN TRUE
    ELSE IF annots = <<>> THEN FALSE
    ELSE \/ /\ IsTextKind(annots[1])
            /\ recs[1].Page = pageNum
            /\ recs[1].Comment = trim(annots[1].contents.s)
            /\ FromTextAnnotations(Tail(recs), Tail(annots), pageNum)
         \/ FromTextAnnotations(recs, Tail(annots), pageNum)

\* C16: the record sequence of an extraction is ordered by ascending page
\* and, within a page, by the order in which the parser returned the
\* annotations; every record has a page >= 1 and a non-empty trimmed
\* comment and comes from an annotation whose subtype (the first of subtype
\* and annotationType) is the text-comment kind.
C16_RecordsOrderedAndFiltered ==
    [][/\ \A k \in 1..Len(comments') :
             /\ comments'[k].Page >= 1
             /\ comments'[k].Comment # <<>>
             /\ trim(comments'[k].Comment) = comments'[k].Comment
             /\ k > 1 => comments'[k - 1].Page <= comments'[k].Page
       /\ \A i \in 1..Len(inFlight) : \A names \in LongLists :
             (GetAnnotationsResolves(i, names) /\ error' = error) =>
                 LET before == inFlight[i].found
                     after  == IF Len(inFlight') = Len(inFlight)
                               THEN inFlight'[i].found ELSE comments'
                 IN  /\ Len(after) >= Len(before)
                     /\ SubSeq(after, 1, Len(before)) = before
                     /\ FromTextAnnotations(SubSeq(after, Len(before) + 1, Len(after)),
                                            Annots(names), inFlight[i].pageNum)]_vars

\* an extraction has ended with two records of page 1 in the order the
\* parser gave them (the dated note, then the one whose comment was
\* trimmed) and a record of page 2
C16_Witness ==
    /\ inFlight = <<>>
    /\ Len(comments) = 3
    /\ comments[1].Page = 1 /\ comments[1].Comment = Note
    /\ comments[2].Page = 1 /\ comments[2].Comment = <<"O", "K">>
    /\ comments[3].Page = 2 /\ comments[3].Comment = Note

\* C17: the displayed state is that of the most recently requested file:
\* an extraction started for another file than the one named in fileName
\* writes neither the record sequence nor the error when it ends, and once
\* every extraction has ended a non-empty error never stands beside a
\* non-empty record sequence.
C17_LatestLoadWins ==
    [][/\ \A i \in 1..Len(inFlight) :
             (fileName # "" /\ inFlight[i].name # fileName
                 /\ inFlight' = RemoveAt(inFlight, i)) =>
                 (comments' = comments /\ error' = error)
       /\ inFlight' = <<>> => ~(error' # "" /\ comments' # <<>>)]_vars

=============================================================================
